---- MODULE Spec2Model ----
(***************************************************************************)
(* Threshold ECDSA (TrueThresholdSignature, src/src/tss.mjs).              *)
(*                                                                         *)
(* The elliptic-curve group, the hash and the random source are external   *)
(* libraries.  They are modelled by a small instance of the same shape:    *)
(* the curve y^2 = x^3 + 7 (the secp256k1 equation) over F_13, whose group *)
(* has prime order 7; a point is written as its discrete logarithm to the  *)
(* base point G = (8,5), 0 being the point at infinity.  Hexadecimal       *)
(* strings are sequences of hexadecimal digits.                            *)
(***************************************************************************)
EXTENDS Integers, Sequences, FiniteSets, TLC

\* ------------------------------------------------------------------ bounds
MaxParties == 3
MaxSigs == 3

\* --------------------------------------------------------- curve and codec
\* this.n = ec.n, the order of the group
GroupOrder == 7
\* padStart(64, '0'): the width of a scalar written in hexadecimal
HexWidth == 2

\* affine coordinates of k*G, k = 1..6
PointX == <<8, 11, 7, 7, 11, 8>>
PointY == <<5, 5, 8, 5, 8, 8>>
Infinity == 0
Points == 0..(GroupOrder - 1)

Scalars == 0..(GroupOrder - 1)

\* BN.umod(this.n)
Umod(a) == a % GroupOrder

\* BN.invm(this.n), for a not divisible by the order
Invm(a) == CHOOSE x \in Scalars : (Umod(a) * x) % GroupOrder = 1

\* BN.toString(16).padStart(64, '0')
RECURSIVE HexDigits(_)
HexDigits(v) == IF v < 16 THEN <<v>> ELSE Append(HexDigits(v \div 16), v % 16)

PadStart(s) ==
  IF Len(s) >= HexWidth THEN s
  ELSE [i \in 1..HexWidth |-> IF i <= HexWidth - Len(s) THEN 0 ELSE s[i - (HexWidth - Len(s))]]

ToHex(v) == PadStart(HexDigits(v))

\* new BN(str, 16)
RECURSIVE FromHex(_)
FromHex(s) == IF s = <<>> THEN 0 ELSE 16 * FromHex(SubSeq(s, 1, Len(s) - 1)) + s[Len(s)]

\* ec.g.mul(k)
GMul(k) == Umod(k)

\* point.encode('hex') of a finite point: the uncompressed pair
Encode(P) == <<PointX[P], PointY[P]>>

\* CryptoJS.SHA256(message).toString()
Messages == {"data to be signed", "another message"}
SHA256(m) == IF m = "data to be signed" THEN <<0, 5>> ELSE <<0, 7>>

\* the strings the callers pass as the agreed nonce
Nonces == {<<0, 0>>, <<0, 3>>, <<0, 12>>}
SessionIds == {"session_a"}

VARIABLES
  validated,     \* the outcome of the last validateTSSImplementation, or None
  constructed,   \* the outcome of new TrueThresholdSignature(t, n)
  audited,       \* the outcome of the last auditPrivateKeyAccess, or None
  now,           \* the clock that new Date() reads
  presented,     \* a signature and a public key of the caller's own making, or None
  threshold,     \* this.threshold, 0 while there is no instance
  totalParties,  \* this.totalParties, 0 while there is no instance
  parties,       \* this.parties, the Map from party id to Party
  keyPair,       \* what generateDistributedKeys returned last, or NoKeys
  dealer,        \* the locals of the last generateDistributedKeys run at its exit
  message,       \* the caller's message
  sessionId,     \* the caller's session id
  commonNonce,   \* the nonce the signers agreed on
  partialSigs,   \* the array of partial signatures the caller has collected
  signers,       \* signers[i]: the id and the share partialSigs[i] was made with
  lastSign,      \* the outcome of the last generatePartialSignature, or None
  combined,      \* the outcome of the last combinePartialSignatures, or None
  verified       \* the outcome of the last verifySignature, or None

vars == <<validated, constructed, audited, now, presented, threshold, totalParties, parties, keyPair, dealer, message, sessionId,
          commonNonce, partialSigs, signers, lastSign, combined, verified>>

None == [none |-> TRUE]
NoKeys == [none |-> TRUE]

\* ------------------------------------------------------------- key generation
\* a variant: one random draw is used for every coefficient
generatePolynomialCoefficients_oneDraw(t, secret, rnd) ==
  [i \in 1..t |-> IF i = 1 THEN secret ELSE Umod(rnd[1])]

\* generatePolynomialCoefficients(secret), rnd being the random draws
generatePolynomialCoefficients(t, secret, rnd) ==
  [i \in 1..t |-> IF i = 1 THEN secret ELSE Umod(rnd[i - 1])]

\* evaluatePolynomial(coefficients, x): the loop over the coefficients
RECURSIVE PolyLoop(_, _, _, _, _)
PolyLoop(coefficients, x, i, result, xPower) ==
  IF i > Len(coefficients) THEN result
  ELSE PolyLoop(coefficients, x, i + 1,
                Umod(result + Umod(coefficients[i] * xPower)),
                Umod(xPower * x))

\* a variant: the power of x starts at x, not at 1
evaluatePolynomial_fromX(coefficients, x) == PolyLoop(coefficients, x, 1, 0, x)

evaluatePolynomial(coefficients, x) == PolyLoop(coefficients, x, 1, 0, 1)

\* a variant: the share index counts from 0, as the loop over an array would
MakeParty_zeroBased(i, coefficients, publicKeyHex) ==
  [ id              |-> i,
    privateKeyShare |-> ToHex(evaluatePolynomial(coefficients, i)),
    publicKey       |-> publicKeyHex,
    shareIndex      |-> i - 1 ]

\* the Party record of party i
MakeParty(i, coefficients, publicKeyHex) ==
  [ id              |-> i,
    privateKeyShare |-> ToHex(evaluatePolynomial(coefficients, i)),
    publicKey       |-> publicKeyHex,
    shareIndex      |-> i ]

\* generateDistributedKeys of a t-of-n instance, on the random draws secret, rnd.
\* Encoding the point at infinity throws, and the catch block rethrows.
keygenRun(t, n, secret, rnd) ==
  LET privateKeyBN == Umod(secret)
      publicKeyPoint == GMul(privateKeyBN)
  IN IF publicKeyPoint = Infinity
     THEN [ ok |-> FALSE,
            error |-> "Failed to generate distributed keys",
            written |-> <<>>,
            privateKeyBN |-> privateKeyBN,
            coefficients |-> <<>> ]
     ELSE LET publicKeyHex == Encode(publicKeyPoint)
              coefficients == generatePolynomialCoefficients(t, privateKeyBN, rnd)
              ps == [i \in 1..n |-> MakeParty(i, coefficients, publicKeyHex)]
          IN [ ok |-> TRUE,
               result |-> [ publicKey    |-> publicKeyHex,
                            parties      |-> ps,
                            threshold    |-> t,
                            totalParties |-> n ],
               written |-> ps,
               privateKeyBN |-> privateKeyBN,
               \* coefficients.fill(new BN(0))
               coefficients |-> [i \in 1..t |-> 0] ]

\* ------------------------------------------------------------ partial signing
\* a variant: the sum is multiplied by k, not by its inverse
generatePartialSignature_noInverse(m, party, sid, nonce) ==
  LET messageHash == SHA256(m)
      k == Umod(FromHex(nonce))
      R == GMul(k)
  IN IF R = Infinity
     THEN [ok |-> FALSE, error |-> "Failed to generate partial signature"]
     ELSE LET r == Umod(PointX[R])
              xi == FromHex(party.privateKeyShare)
              si == Umod(k * Umod(FromHex(messageHash) + Umod(r * xi)))
          IN [ ok |-> TRUE,
               sig |-> [ partyId     |-> party.id,
                         sessionId   |-> sid,
                         r           |-> ToHex(r),
                         si          |-> ToHex(si),
                         messageHash |-> messageHash,
                         message     |-> m ] ]

\* a variant: the nonce advances with the number of signatures made so far
generatePartialSignature_sharedCounter(m, party, sid, nonce) ==
  LET messageHash == SHA256(m)
      k == Umod(FromHex(nonce) + Len(partialSigs))
      R == GMul(k)
  IN IF R = Infinity
     THEN [ok |-> FALSE, error |-> "Failed to generate partial signature"]
     ELSE LET r == Umod(PointX[R])
              xi == FromHex(party.privateKeyShare)
              si == Umod(Invm(k) * Umod(FromHex(messageHash) + Umod(r * xi)))
          IN [ ok |-> TRUE,
               sig |-> [ partyId     |-> party.id,
                         sessionId   |-> sid,
                         r           |-> ToHex(r),
                         si          |-> ToHex(si),
                         messageHash |-> messageHash,
                         message     |-> m ] ]

\* generatePartialSignature(message, party, sessionId, nonce) with a nonce given
generatePartialSignature(m, party, sid, nonce) ==
  LET messageHash == SHA256(m)
      messageHashBN == FromHex(messageHash)
      k == Umod(FromHex(nonce))
      R == GMul(k)
  IN IF R = Infinity
     THEN [ok |-> FALSE, error |-> "Failed to generate partial signature"]
     ELSE LET r == Umod(PointX[R])
              xi == FromHex(party.privateKeyShare)
              kInv == Invm(k)
              rxiMod == Umod(r * xi)
              sum == Umod(messageHashBN + rxiMod)
              si == Umod(kInv * sum)
          IN [ ok |-> TRUE,
               sig |-> [ partyId     |-> party.id,
                         sessionId   |-> sid,
                         r           |-> ToHex(r),
                         si          |-> ToHex(si),
                         messageHash |-> messageHash,
                         message     |-> m ] ]

\* ------------------------------------------------------------------ combining
\* lagrangeCoefficient(i, indices): the loop over indices, from position p on
RECURSIVE LagrangeLoop(_, _, _, _)
LagrangeLoop(i, indices, p, result) ==
  IF p > Len(indices) THEN result
  ELSE LET j == indices[p]
       IN IF i # j
          THEN LET num == Umod(GroupOrder - j)
                   den == Umod(i - j)
                   denInv == Invm(den)
               IN LagrangeLoop(i, indices, p + 1, Umod(result * num * denInv))
          ELSE LagrangeLoop(i, indices, p + 1, result)

\* a variant: the denominator is multiplied in, not its inverse
RECURSIVE LagrangeLoopNoInverse(_, _, _, _)
LagrangeLoopNoInverse(i, indices, p, result) ==
  IF p > Len(indices) THEN result
  ELSE LET j == indices[p]
       IN IF i # j
          THEN LagrangeLoopNoInverse(i, indices, p + 1,
                                     Umod(result * Umod(GroupOrder - j) * Umod(i - j)))
          ELSE LagrangeLoopNoInverse(i, indices, p + 1, result)

lagrangeCoefficient_noInverse(i, indices) == LagrangeLoopNoInverse(i, indices, 1, 1)

\* a variant: the coefficient is taken over the parties 1..t, whoever signed
lagrangeCoefficient_firstParties(i, indices) ==
  LagrangeLoop(i, [p \in 1..Len(indices) |-> p], 1, 1)

lagrangeCoefficient(i, indices) == LagrangeLoop(i, indices, 1, 1)

\* the selection loop: the first occurrence of each party id, until t are kept
RECURSIVE SelectLoop(_, _, _, _)
SelectLoop(t, sigs, p, uniquePartialSigs) ==
  IF p > Len(sigs) \/ Len(uniquePartialSigs) = t THEN uniquePartialSigs
  ELSE IF \A q \in 1..Len(uniquePartialSigs) : uniquePartialSigs[q].partyId # sigs[p].partyId
       THEN SelectLoop(t, sigs, p + 1, Append(uniquePartialSigs, sigs[p]))
       ELSE SelectLoop(t, sigs, p + 1, uniquePartialSigs)

\* a variant: the loop does not stop at t signatures
selectUnique_noStop(t, sigs) == SelectLoop(Len(sigs) + 1, sigs, 1, <<>>)

\* a variant: the first t signatures are taken, duplicates included
selectUnique_firstT(t, sigs) == SubSeq(sigs, 1, IF Len(sigs) < t THEN Len(sigs) ELSE t)

\* a variant: of each selected party the last signature is kept, not the first
selectUnique_lastSeen(t, sigs) ==
  LET u == SelectLoop(t, sigs, 1, <<>>)
  IN [ q \in 1..Len(u) |->
         sigs[CHOOSE i \in 1..Len(sigs) :
                /\ sigs[i].partyId = u[q].partyId
                /\ \A j \in (i + 1)..Len(sigs) : sigs[j].partyId # u[q].partyId] ]

selectUnique(t, sigs) == SelectLoop(t, sigs, 1, <<>>)

\* the interpolation loop: s = sum of lambda_i * si
RECURSIVE SumLoop(_, _, _, _, _)
SumLoop(t, uniquePartialSigs, selectedParticipantIds, i, s) ==
  IF i > t THEN s
  ELSE LET partyId == selectedParticipantIds[i]
           si == FromHex(uniquePartialSigs[i].si)
           lambda == lagrangeCoefficient(partyId, selectedParticipantIds)
           partialResult == Umod(lambda * si)
       IN SumLoop(t, uniquePartialSigs, selectedParticipantIds, i + 1, Umod(s + partialResult))

interpolate(t, uniquePartialSigs) ==
  SumLoop(t, uniquePartialSigs,
          [i \in 1..Len(uniquePartialSigs) |-> uniquePartialSigs[i].partyId], 1, 0)

\* a variant: s is returned as interpolated
normalize_none(s) == s

\* the normalisation of s: n - s when s > n >> 1
normalize(s) == IF s > GroupOrder \div 2 THEN GroupOrder - s ELSE s

Thrown(msg, inTry) ==
  [ ok |-> FALSE, error |-> msg,
    text |-> IF inTry THEN "Failed to combine signatures: " \o msg ELSE msg ]

uniqueIds(sigs) == {sigs[i].partyId : i \in 1..Len(sigs)}

\* a variant: one signature fewer than the threshold is let through
tooFew_offByOne(t, sigs) == Len(sigs) < t - 1

\* partialSignatures.length < this.threshold
tooFew(t, sigs) == Len(sigs) < t

\* a variant: only the first two signatures are compared
rMismatch_firstTwo(sigs) == \E i \in 1..Len(sigs) : i <= 2 /\ sigs[i].r # sigs[1].r

\* a variant: the r values are compared after the party ids have been checked
rMismatch_afterParties(sigs) ==
  /\ \A i \in 1..Len(sigs) : sigs[i].partyId \in 1..totalParties
  /\ \E i \in 1..Len(sigs) : sigs[i].r # sigs[1].r

\* some sig.r !== partialSignatures[0].r
rMismatch(sigs) == \E i \in 1..Len(sigs) : sigs[i].r # sigs[1].r

\* not every sig.partyId is one of 1..totalParties
invalidParty(n, sigs) == \E i \in 1..Len(sigs) : sigs[i].partyId \notin 1..n

\* a variant: the signatures are counted, not the distinct party ids
tooFewUnique_counted(t, sigs) == Len(sigs) < t

\* uniqueParticipantIds.length < this.threshold
tooFewUnique(t, sigs) == Cardinality(uniqueIds(sigs)) < t

\* combinePartialSignatures(message, partialSignatures) of a t-of-n instance
combinePartialSignatures(t, n, m, sigs) ==
  IF tooFew(t, sigs)
  THEN Thrown("At least <threshold> partial signatures are required", FALSE)
  ELSE IF rMismatch(sigs)
  THEN Thrown("All partial signatures must have the same r value", TRUE)
  ELSE IF invalidParty(n, sigs)
  THEN Thrown("One or more signatures are from invalid parties", TRUE)
  ELSE IF tooFewUnique(t, sigs)
  THEN Thrown("Need <threshold> unique party signatures", TRUE)
  ELSE LET uniquePartialSigs == selectUnique(t, sigs)
           rBN == FromHex(sigs[1].r)
           selectedParticipantIds ==
             [i \in 1..Len(uniquePartialSigs) |-> uniquePartialSigs[i].partyId]
       IN \* uniquePartialSigs[i].si of an entry that is not there throws
          IF Len(uniquePartialSigs) < t
          THEN Thrown("Cannot read properties of undefined", TRUE)
          ELSE [ ok |-> TRUE,
                 signature |-> [ r                    |-> ToHex(rBN),
                                 s                    |-> ToHex(normalize(interpolate(t, uniquePartialSigs))),
                                 message              |-> m,
                                 messageHash          |-> sigs[1].messageHash,
                                 participatingParties |-> selectedParticipantIds,
                                 sessionId            |-> sigs[1].sessionId ] ]

\* ------------------------------------------------------------------ verifying
\* ec.keyFromPublic(publicKey, 'hex'): the point with this encoding, if any
IsPointEncoding(pub) == \E P \in 1..(GroupOrder - 1) : Encode(P) = pub
Decode(pub) == CHOOSE P \in 1..(GroupOrder - 1) : Encode(P) = pub

\* the digest as the integer the verifier uses: a 256-bit digest is not shifted,
\* and is reduced once when it is not below the order
TruncateToN(e) == IF e >= GroupOrder THEN e - GroupOrder ELSE e

\* key.verify(msgHashArr, {r, s}): standard ECDSA verification
ecVerify(Q, msgHash, r, s) ==
  IF r < 1 \/ r >= GroupOrder THEN FALSE
  ELSE IF s < 1 \/ s >= GroupOrder THEN FALSE
  ELSE LET e == TruncateToN(FromHex(msgHash))
           sinv == Invm(s)
           u1 == Umod(sinv * e)
           u2 == Umod(sinv * r)
           P == Umod(u1 + u2 * Q)
       IN IF P = Infinity THEN FALSE
          ELSE Umod(PointX[P]) = r

\* an argument or a field that is undefined is a field the record does not have
has(rec, f) == f \in DOMAIN rec

\* CryptoJS.SHA256 of nothing: finalize(undefined) appends nothing
EmptyDigest == <<0, 2>>

\* a variant: si is read where the field is undefined
BNOf_orSi(rec, f) ==
  IF has(rec, f) THEN FromHex(rec[f])
  ELSE IF has(rec, "si") THEN FromHex(rec.si) ELSE 0

\* new BN(x, 16), which is 0 for an undefined x
BNOf(rec, f) == IF has(rec, f) THEN FromHex(rec[f]) ELSE 0

\* a variant: the error of the outer try block is not caught
caughtOuter_rethrown(msg) == [threw |-> msg]

\* the outer catch block
caughtOuter(msg) == [valid |-> FALSE, reason |-> "Verification error: " \o msg]

\* the object returned for a signature that key.verify accepts
validResult(signature, args) ==
  LET base == [ valid      |-> TRUE,
                publicKey  |-> args.publicKey,
                verifiedAt |-> now ]
      withMessage == IF has(signature, "message")
                     THEN base @@ [message |-> signature.message] ELSE base
  IN IF has(signature, "participatingParties")
     THEN withMessage @@ [participants |-> signature.participatingParties]
     ELSE withMessage

\* a variant: the key is decoded before the hash is compared
verifyCall_keyFirst(args) ==
  IF ~has(args, "signature")
  THEN caughtOuter("Cannot read properties of undefined (reading 'message')")
  ELSE
  LET signature == args.signature
      messageHash == IF has(signature, "message") THEN SHA256(signature.message)
                     ELSE EmptyDigest
      r == BNOf(signature, "r")
      s == BNOf(signature, "s")
  IN IF has(args, "publicKey") /\ ~IsPointEncoding(args.publicKey)
     THEN [valid |-> FALSE, reason |-> "Invalid public key format"]
     ELSE IF ~has(signature, "messageHash") \/ messageHash # signature.messageHash
     THEN [valid |-> FALSE, reason |-> "Message hash mismatch"]
     ELSE IF r < 1 \/ r >= GroupOrder \/ s < 1 \/ s >= GroupOrder
     THEN [valid |-> FALSE, reason |-> "Signature verification failed"]
     ELSE IF ~has(args, "publicKey")
     THEN caughtOuter("Cannot read properties of null")
     ELSE IF ecVerify(Decode(args.publicKey), messageHash, r, s)
     THEN validResult(signature, args)
     ELSE [valid |-> FALSE, reason |-> "Signature verification failed"]

\* a variant: once the instance has a key set, its public key is used
verifyCall_instanceKey(args) ==
  verifyCall_keyFirst(IF keyPair # NoKeys /\ has(args, "signature")
                      THEN [signature |-> args.signature, publicKey |-> keyPair.publicKey]
                      ELSE args)

\* verifySignature(signature, publicKey), either argument and any field of the
\* signature possibly undefined
verifyCall(args) ==
  \* signature.message of an undefined signature throws inside the try block
  IF ~has(args, "signature")
  THEN caughtOuter("Cannot read properties of undefined (reading 'message')")
  ELSE
  LET signature == args.signature
      messageHash == IF has(signature, "message") THEN SHA256(signature.message)
                     ELSE EmptyDigest
      r == BNOf(signature, "r")
      s == BNOf(signature, "s")
  IN IF ~has(signature, "messageHash") \/ messageHash # signature.messageHash
     THEN [valid |-> FALSE, reason |-> "Message hash mismatch"]
     \* ec.keyFromPublic throws on a string that encodes no point
     ELSE IF has(args, "publicKey") /\ ~IsPointEncoding(args.publicKey)
     THEN [valid |-> FALSE, reason |-> "Invalid public key format"]
     \* key.verify returns false on r, s out of range before it reads the key
     ELSE IF r < 1 \/ r >= GroupOrder \/ s < 1 \/ s >= GroupOrder
     THEN [valid |-> FALSE, reason |-> "Signature verification failed"]
     \* a key made from undefined has no point: reading it throws
     ELSE IF ~has(args, "publicKey")
     THEN caughtOuter("Cannot read properties of null")
     ELSE IF ecVerify(Decode(args.publicKey), messageHash, r, s)
     THEN validResult(signature, args)
     ELSE [valid |-> FALSE, reason |-> "Signature verification failed"]

\* a variant: the outcome of key.verify is not looked at
verifySignature_unchecked(signature, publicKey) ==
  IF SHA256(signature.message) # signature.messageHash
  THEN [valid |-> FALSE, reason |-> "Message hash mismatch"]
  ELSE IF ~IsPointEncoding(publicKey)
  THEN [valid |-> FALSE, reason |-> "Invalid public key format"]
  ELSE [ valid        |-> TRUE,
         message      |-> signature.message,
         publicKey    |-> publicKey,
         participants |-> signature.participatingParties ]

\* verifySignature(signature, publicKey) with both arguments given
verifySignature(signature, publicKey) ==
  verifyCall([signature |-> signature, publicKey |-> publicKey])

\* ---------------------------------------------------------------- the program
\* what a Party record holds in secret
shareOf(party) == [id |-> party.id, privateKeyShare |-> party.privateKeyShare]

\* the constructor's two checks
constructorAccepts(t, n) == ~(t > n) /\ ~(t < 2)

Init ==
  /\ threshold \in 1..MaxParties
  /\ totalParties \in 1..MaxParties
  /\ constructorAccepts(threshold, totalParties)
  /\ constructed = [exit |-> "returned", args |-> <<threshold, totalParties>>]
  /\ audited = None
  /\ validated = None
  /\ now = 0
  /\ presented = None
  /\ parties = <<>>
  /\ keyPair = NoKeys
  /\ dealer = [exit |-> "none"]
  /\ message \in Messages
  /\ sessionId \in SessionIds
  /\ commonNonce \in Nonces
  /\ partialSigs = <<>>
  /\ signers = <<>>
  /\ lastSign = None
  /\ combined = None
  /\ verified = None

\* tss.generateDistributedKeys(), once per instance as the callers do
GenerateDistributedKeys ==
  /\ constructed.exit = "returned"
  /\ keyPair = NoKeys
  /\ \E secret \in Scalars, rnd \in [1..(threshold - 1) -> Scalars] :
       LET run == keygenRun(threshold, totalParties, secret, rnd)
       IN /\ keyPair' = IF run.ok THEN run.result ELSE keyPair
          /\ parties' = IF run.ok THEN run.written ELSE parties
          /\ dealer' = [ exit |-> IF run.ok THEN "returned" ELSE "thrown",
                         privateKeyBN |-> run.privateKeyBN,
                         coefficients |-> run.coefficients ]
  /\ UNCHANGED <<validated, constructed, audited, now, presented, threshold, totalParties, message, sessionId, commonNonce,
                 partialSigs, signers, lastSign, combined, verified>>

\* one signer's call of generatePartialSignature and the caller's push of its result
SignWith(party) ==
  LET run == generatePartialSignature(message, party, sessionId, commonNonce)
  IN /\ lastSign' = run
     /\ partialSigs' = IF run.ok THEN Append(partialSigs, run.sig) ELSE partialSigs
     /\ signers' = IF run.ok THEN Append(signers, shareOf(party)) ELSE signers

\* the parties that have contributed to the session
hasSigned(p) == \E i \in 1..Len(signers) : signers[i].id = p

\* a party of the key set that has not signed yet signs the message with the
\* agreed nonce
GeneratePartialSignature ==
  /\ constructed.exit = "returned"
  /\ keyPair # NoKeys
  /\ combined = None
  /\ Len(partialSigs) < MaxSigs
  /\ \E p \in 1..totalParties :
       /\ ~hasSigned(p)
       /\ SignWith(keyPair.parties[p])
  /\ UNCHANGED <<validated, constructed, audited, now, presented, threshold, totalParties, parties, keyPair, dealer, message,
                 sessionId, commonNonce, combined, verified>>

\* tss.combinePartialSignatures(message, partialSigs)
CombinePartialSignatures ==
  /\ constructed.exit = "returned"
  /\ combined = None
  /\ combined' = combinePartialSignatures(threshold, totalParties, message, partialSigs)
  /\ UNCHANGED <<validated, constructed, audited, now, presented, threshold, totalParties, parties, keyPair, dealer, message,
                 sessionId, commonNonce, partialSigs, signers, lastSign, verified>>

\* tss.verifySignature(finalSig, keyPair.publicKey)
VerifySignature ==
  /\ constructed.exit = "returned"
  /\ combined # None
  /\ combined.ok
  /\ keyPair # NoKeys
  /\ verified = None
  /\ verified' = verifySignature(combined.signature, keyPair.publicKey)
  /\ UNCHANGED <<validated, constructed, audited, now, presented, threshold, totalParties, parties, keyPair, dealer, message,
                 sessionId, commonNonce, partialSigs, signers, lastSign, combined>>

Next ==
  \/ GenerateDistributedKeys
  \/ GeneratePartialSignature
  \/ CombinePartialSignatures
  \/ VerifySignature

Spec == Init /\ [][Next]_vars

\* ------------------------------------------- a contribution of another key set
\* falseTss = new TrueThresholdSignature(2, 2)
ForeignThreshold == 2
ForeignParties == 2

\* the key sets falseTss.generateDistributedKeys() can return, over its random draws
foreignKeyPairs ==
  { run.result : run \in { r \in { keygenRun(ForeignThreshold, ForeignParties, secret, rnd) :
                                     secret \in Scalars,
                                     rnd \in [1..(ForeignThreshold - 1) -> Scalars] } : r.ok } }

\* falseKeyPair.parties[i], for each of them
foreignParties == { kp.parties[p] : kp \in foreignKeyPairs, p \in 1..ForeignParties }

\* what they hold in secret: the signature of a party depends on nothing else of it
foreignShares == { shareOf(party) : party \in foreignParties }

\* the signer holds the share the key set gave to the party of its id
isGenuine(signer) ==
  /\ signer # None
  /\ signer.id \in 1..totalParties
  /\ keyPair # NoKeys
  /\ signer.privateKeyShare = keyPair.parties[signer.id].privateKeyShare

\* the callers' fixtures: one message
InitForeign ==
  /\ Init
  /\ message = "data to be signed"

\* the parties of the key set sign in the order of their ids, some of them not at all
GeneratePartialSignatureInOrder ==
  /\ keyPair # NoKeys
  /\ combined = None
  /\ Len(partialSigs) < MaxSigs
  /\ \A i \in 1..Len(signers) : isGenuine(signers[i])
  /\ \E p \in 1..totalParties :
       /\ \A i \in 1..Len(signers) : signers[i].id < p
       /\ SignWith(keyPair.parties[p])
  /\ UNCHANGED <<validated, constructed, audited, now, presented, threshold, totalParties, parties, keyPair, dealer, message,
                 sessionId, commonNonce, combined, verified>>

\* falseTss.generateDistributedKeys(), then one party of that key set signs the
\* same message with the same nonce; its signature comes last in the array
GenerateForeignPartialSignature ==
  /\ keyPair # NoKeys
  /\ combined = None
  /\ Len(partialSigs) < MaxSigs
  /\ \A i \in 1..Len(signers) : isGenuine(signers[i])
  /\ \E held \in foreignShares :
       /\ ~isGenuine(held)
       /\ SignWith(CHOOSE party \in foreignParties : shareOf(party) = held)
  /\ UNCHANGED <<validated, constructed, audited, now, presented, threshold, totalParties, parties, keyPair, dealer, message,
                 sessionId, commonNonce, combined, verified>>

NextForeign ==
  \/ GenerateDistributedKeys
  \/ GeneratePartialSignatureInOrder
  \/ GenerateForeignPartialSignature
  \/ CombinePartialSignatures
  \/ VerifySignature

SpecForeign == InitForeign /\ [][NextForeign]_vars

\* ------------------------------------- combining records of any content at all
\* the r and si strings a caller may put into a record
SuppliedR == {<<0, 1>>, <<0, 4>>}
SuppliedSi == {<<0, 2>>, <<0, 6>>}

InitCombine ==
  /\ Init
  /\ message = "data to be signed"
  /\ commonNonce = <<0, 12>>

\* the caller adds a record of its own making to the array
SupplyPartialSignature ==
  /\ combined = None
  /\ Len(partialSigs) < MaxSigs
  /\ \E id \in 0..(totalParties + 1), r \in SuppliedR, si \in SuppliedSi :
       /\ partialSigs' = Append(partialSigs,
                                [ partyId     |-> id,
                                  sessionId   |-> sessionId,
                                  r           |-> r,
                                  si          |-> si,
                                  messageHash |-> SHA256(message),
                                  message     |-> message ])
       /\ signers' = Append(signers, None)
  /\ UNCHANGED <<validated, constructed, audited, now, presented, threshold, totalParties, parties, keyPair, dealer, message,
                 sessionId, commonNonce, lastSign, combined, verified>>

NextCombine ==
  \/ SupplyPartialSignature
  \/ CombinePartialSignatures

SpecCombine == InitCombine /\ [][NextCombine]_vars

\* ------------------------------------------------ the life of one instance
\* a variant: a threshold of 1 is let through
tooSmall_one(t) == t < 1

\* threshold < 2
tooSmall(t) == t < 2

\* constructor(threshold, totalParties)
constructor(t, n) ==
  IF t > n
  THEN [ok |-> FALSE, error |-> "Threshold cannot be greater than total number of parties"]
  ELSE IF tooSmall(t)
  THEN [ok |-> FALSE, error |-> "Threshold must be at least 2 for security"]
  ELSE [ok |-> TRUE, threshold |-> t, totalParties |-> n]

\* the properties the constructor gives an instance
ownProperties == {"threshold", "totalParties", "parties", "n"}

\* the methods of the class TrueThresholdSignature
methods ==
  { "generatePolynomialCoefficients", "evaluatePolynomial", "generateDistributedKeys",
    "lagrangeCoefficient", "generateSessionNonce", "generatePartialSignature",
    "combinePartialSignatures", "verifySignature", "auditPrivateKeyAccess" }

\* a variant: the audit interpolates the first shares of the parties map and
\* reports the outcome
auditPrivateKeyAccess_reconstructing ==
  IF parties = <<>>
  THEN [ audit                              |-> "PASSED",
         privateKeyReconstructionAvailable  |-> FALSE,
         distributedSigningOnly             |-> TRUE,
         timestamp                          |-> now ]
  ELSE [ audit                              |-> "PASSED",
         privateKeyReconstructionAvailable  |-> TRUE,
         distributedSigningOnly             |-> FALSE,
         timestamp                          |-> now,
         privateKey |-> interpolate(threshold,
                          [ i \in 1..threshold |->
                              [ partyId |-> parties[i].id,
                                si      |-> parties[i].privateKeyShare ] ]) ]

\* tssInstance.hasOwnProperty(name): the methods of a class are properties of
\* its prototype, not of the instance
hasOwnProperty(name) == name \in ownProperties

\* TSSSecurityValidator.validateTSSImplementation(tssInstance)
validateTSSImplementation ==
  LET checks == [ noPrivateKeyReconstruction |-> ~hasOwnProperty("reconstructPrivateKey"),
                  distributedSigningOnly     |-> hasOwnProperty("generatePartialSignature"),
                  thresholdEnforced          |-> threshold >= 2,
                  auditCapability            |-> hasOwnProperty("auditPrivateKeyAccess") ]
      passed == \A c \in DOMAIN checks : checks[c]
  IN [ overall        |-> IF passed THEN "SECURE TSS" ELSE "INSECURE IMPLEMENTATION",
       checks         |-> checks,
       recommendation |-> IF passed
                          THEN "This implementation follows true TSS principles"
                          ELSE "This implementation has security vulnerabilities" ]

\* auditPrivateKeyAccess()
auditPrivateKeyAccess ==
  [ audit                              |-> "PASSED",
    privateKeyReconstructionAvailable  |-> FALSE,
    distributedSigningOnly             |-> TRUE,
    timestamp                          |-> now ]

\* nothing has been constructed yet
InitLifecycle ==
  /\ constructed = [exit |-> "none"]
  /\ audited = None
  /\ validated = None
  /\ now = 0
  /\ presented = None
  /\ threshold = 0
  /\ totalParties = 0
  /\ parties = <<>>
  /\ keyPair = NoKeys
  /\ dealer = [exit |-> "none"]
  /\ message = "data to be signed"
  /\ sessionId \in SessionIds
  /\ commonNonce = <<0, 12>>
  /\ partialSigs = <<>>
  /\ signers = <<>>
  /\ lastSign = None
  /\ combined = None
  /\ verified = None

\* new TrueThresholdSignature(t, n)
Construct ==
  /\ constructed.exit = "none"
  /\ \E t \in 0..(MaxParties + 1), n \in 0..MaxParties :
       LET run == constructor(t, n)
       IN /\ constructed' = IF run.ok
                            THEN [exit |-> "returned", args |-> <<t, n>>]
                            ELSE [exit |-> "thrown", args |-> <<t, n>>, error |-> run.error]
          /\ threshold' = IF run.ok THEN run.threshold ELSE threshold
          /\ totalParties' = IF run.ok THEN run.totalParties ELSE totalParties
  /\ UNCHANGED <<validated, audited, now, presented, parties, keyPair, dealer, message, sessionId,
                 commonNonce, partialSigs, signers, lastSign, combined, verified>>

\* tss.auditPrivateKeyAccess()
AuditPrivateKeyAccess ==
  /\ constructed.exit = "returned"
  /\ audited = None
  /\ audited' = auditPrivateKeyAccess
  /\ UNCHANGED <<validated, constructed, now, presented, threshold, totalParties, parties, keyPair,
                 dealer, message, sessionId, commonNonce, partialSigs, signers,
                 lastSign, combined, verified>>

NextLifecycle ==
  \/ Construct
  \/ GenerateDistributedKeys
  \/ GeneratePartialSignature
  \/ CombinePartialSignatures
  \/ VerifySignature
  \/ AuditPrivateKeyAccess

SpecLifecycle == InitLifecycle /\ [][NextLifecycle]_vars

\* TSSSecurityValidator.validateTSSImplementation(tss)
ValidateTSSImplementation ==
  /\ constructed.exit = "returned"
  /\ validated = None
  /\ validated' = validateTSSImplementation
  /\ UNCHANGED <<constructed, audited, now, presented, threshold, totalParties, parties,
                 keyPair, dealer, message, sessionId, commonNonce, partialSigs, signers,
                 lastSign, combined, verified>>

\* an instance that is constructed, generates its keys and is audited and validated
NextValidate ==
  \/ Construct
  \/ GenerateDistributedKeys
  \/ AuditPrivateKeyAccess
  \/ ValidateTSSImplementation

SpecValidate == InitLifecycle /\ [][NextValidate]_vars

\* ------------------------------------ verifying arguments of any content at all
\* the values a caller may put into the fields of a signature
PresentedR == {ToHex(0), ToHex(1)}
PresentedS == {ToHex(0), ToHex(1), ToHex(6)}
PresentedDigests == {SHA256(m) : m \in Messages} \cup {EmptyDigest}
PresentedParticipants == {<<1, 2>>}

\* the public keys a caller may pass: two that encode a point, one that does not
PresentedKeys == {Encode(1), Encode(3), <<0, 0>>}

SignatureFields == {"message", "messageHash", "r", "s", "participatingParties"}

\* signature objects, each with any of its fields undefined
PresentedSignatures ==
  { [f \in F |-> full[f]] :
      full \in [ message              : Messages,
                 messageHash          : PresentedDigests,
                 r                    : PresentedR,
                 s                    : PresentedS,
                 participatingParties : PresentedParticipants ],
      F \in SUBSET SignatureFields }

\* the argument lists of verifySignature, each argument possibly undefined
PresentedArgs ==
  { [signature |-> sg, publicKey |-> pk] : sg \in PresentedSignatures, pk \in PresentedKeys }
    \cup { [signature |-> sg] : sg \in PresentedSignatures }
    \cup { [publicKey |-> pk] : pk \in PresentedKeys }

\* how far the clock runs
MaxClock == 1

InitVerify ==
  /\ Init
  /\ threshold = 2
  /\ totalParties = 2
  /\ message = "data to be signed"
  /\ commonNonce = <<0, 12>>

\* the caller builds the arguments of a verification
Present ==
  /\ presented = None
  /\ \E args \in PresentedArgs : presented' = [args |-> args]
  /\ UNCHANGED <<validated, constructed, audited, now, threshold, totalParties, parties, keyPair,
                 dealer, message, sessionId, commonNonce, partialSigs, signers,
                 lastSign, combined, verified>>

\* tss.verifySignature(signature, publicKey) on these arguments, any number of times
VerifyPresented ==
  /\ constructed.exit = "returned"
  /\ presented # None
  /\ verified' = verifyCall(presented.args)
  /\ UNCHANGED <<validated, constructed, audited, now, presented, threshold, totalParties, parties,
                 keyPair, dealer, message, sessionId, commonNonce, partialSigs, signers,
                 lastSign, combined>>

\* time passes
Tick ==
  /\ now < MaxClock
  /\ now' = now + 1
  /\ UNCHANGED <<validated, constructed, audited, presented, threshold, totalParties, parties,
                 keyPair, dealer, message, sessionId, commonNonce, partialSigs, signers,
                 lastSign, combined, verified>>

NextVerify ==
  \/ Present
  \/ VerifyPresented
  \/ Tick

SpecVerify == InitVerify /\ [][NextVerify]_vars

\* the same, with a key generation of the instance at any point
NextVerifyAgain ==
  \/ Present
  \/ VerifyPresented
  \/ Tick
  \/ GenerateDistributedKeys

SpecVerifyAgain == InitVerify /\ [][NextVerifyAgain]_vars

\* ------------------------------------- signatures of several sessions, combined
\* the session ids in use: the callers' one and another
OpenSessionIds == SessionIds \cup {"session_b"}

\* the share a signer of these sessions holds
SampleShare == ToHex(2)

\* a party signs one of the messages in one of the sessions with the agreed
\* nonce, and the caller adds the signature to the array
SignInSomeSession ==
  /\ combined = None
  /\ Len(partialSigs) < MaxSigs
  /\ \E id \in 1..totalParties, sid \in OpenSessionIds, m \in Messages :
       LET party == [id |-> id, privateKeyShare |-> SampleShare]
           run == generatePartialSignature(m, party, sid, commonNonce)
       IN /\ run.ok
          /\ lastSign' = run
          /\ partialSigs' = Append(partialSigs, run.sig)
          /\ signers' = Append(signers, shareOf(party))
  /\ UNCHANGED <<validated, constructed, audited, now, presented, threshold, totalParties, parties,
                 keyPair, dealer, message, sessionId, commonNonce, combined, verified>>

NextSessions ==
  \/ SignInSomeSession
  \/ CombinePartialSignatures

SpecSessions == InitCombine /\ [][NextSessions]_vars

\* -------------------------------------------- signing without a nonce argument
\* the group has three x-coordinates modulo its order, one for each of the
\* parties that sign here
DefaultNonceParties == Cardinality({PointX[P] % GroupOrder : P \in 1..(GroupOrder - 1)})

\* a variant: the party id is not part of the data that is hashed
generateSessionNonce_noParty(sid, partyId) ==
  ToHex((IF now % 2 = 0 THEN 1 ELSE GroupOrder - 1)
        + GroupOrder * (IF sid \in SessionIds THEN 0 ELSE 1))

\* generateSessionNonce(sessionId, partyId): the digest of
\* `${sessionId}_${partyId}_${Date.now()}`. The digests of different data are
\* different, and those of different parties are nonces with different
\* x-coordinates of k*G: the digest has no collisions.
generateSessionNonce(sid, partyId) ==
  ToHex((IF now % 2 = 0 THEN partyId ELSE GroupOrder - partyId)
        + GroupOrder * (IF sid \in SessionIds THEN 0 ELSE 1))

\* generatePartialSignature(message, party, sessionId, nonce), the nonce argument
\* possibly undefined: nonce || this.generateSessionNonce(sessionId, party.id)
signCall(args) ==
  generatePartialSignature(args.message, args.party, args.sessionId,
                           IF has(args, "nonce") THEN args.nonce
                           ELSE generateSessionNonce(args.sessionId, args.party.id))

InitDefaultNonce ==
  /\ Init
  /\ totalParties = DefaultNonceParties
  /\ message = "data to be signed"
  /\ commonNonce = <<0, 12>>

\* a party signs, with the agreed nonce or with no nonce argument at all, and
\* the caller adds the signature to the array
SignWithOrWithoutNonce ==
  /\ combined = None
  /\ Len(partialSigs) < MaxSigs
  /\ \E id \in 1..totalParties, given \in BOOLEAN :
       LET party == [id |-> id, privateKeyShare |-> SampleShare]
           base == [message |-> message, party |-> party, sessionId |-> sessionId]
           run == signCall(IF given THEN base @@ [nonce |-> commonNonce] ELSE base)
       IN /\ lastSign' = run
          /\ partialSigs' = IF run.ok THEN Append(partialSigs, run.sig) ELSE partialSigs
          /\ signers' = IF run.ok
                        THEN Append(signers, shareOf(party) @@ [derived |-> ~given])
                        ELSE signers
  /\ UNCHANGED <<validated, constructed, audited, now, presented, threshold, totalParties, parties,
                 keyPair, dealer, message, sessionId, commonNonce, combined, verified>>

NextDefaultNonce ==
  \/ SignWithOrWithoutNonce
  \/ Tick
  \/ CombinePartialSignatures

SpecDefaultNonce == InitDefaultNonce /\ [][NextDefaultNonce]_vars

\* ------------------------------------ a partial signature passed to the verifier
\* tss.verifySignature(partialSig, keyPair.publicKey) for one of the collected
\* partial signatures
VerifyPartialSignature ==
  /\ constructed.exit = "returned"
  /\ keyPair # NoKeys
  /\ verified = None
  /\ \E i \in 1..Len(partialSigs) :
       LET args == [signature |-> partialSigs[i], publicKey |-> keyPair.publicKey]
       IN /\ presented' = [args |-> args]
          /\ verified' = verifyCall(args)
  /\ UNCHANGED <<validated, constructed, audited, now, threshold, totalParties, parties, keyPair,
                 dealer, message, sessionId, commonNonce, partialSigs, signers,
                 lastSign, combined>>

NextPartial ==
  \/ GenerateDistributedKeys
  \/ GeneratePartialSignature
  \/ VerifyPartialSignature

SpecPartial == InitForeign /\ [][NextPartial]_vars

\* --------------------------------------------------- the dealer's work alone
\* instances that share the secret with a polynomial of degree 1 or 2
InitSharing ==
  /\ InitCombine
  /\ threshold <= 3

NextSharing ==
  \/ GenerateDistributedKeys

SpecSharing == InitSharing /\ [][NextSharing]_vars

\* ------------------------------------------------- key generation that fails
\* generateDistributedKeys when randomBytes throws in generatePolynomialCoefficients
\* after `drawn` coefficients were drawn: the catch block rethrows, and the
\* locals are left as they were at the throw
keygenInterrupted(t, n, secret, rnd, drawn) ==
  LET privateKeyBN == Umod(secret)
      publicKeyPoint == GMul(privateKeyBN)
  IN IF publicKeyPoint = Infinity
     THEN keygenRun(t, n, secret, rnd)
     ELSE [ ok |-> FALSE,
            error |-> "Failed to generate distributed keys",
            written |-> <<>>,
            privateKeyBN |-> privateKeyBN,
            coefficients |-> [i \in 1..(drawn + 1) |->
                                IF i = 1 THEN privateKeyBN ELSE Umod(rnd[i - 1])] ]

\* tss.generateDistributedKeys() while the random source fails
GenerateDistributedKeysInterrupted ==
  /\ constructed.exit = "returned"
  /\ keyPair = NoKeys
  /\ \E secret \in Scalars, rnd \in [1..(threshold - 1) -> Scalars],
        drawn \in 0..(threshold - 2) :
       LET run == keygenInterrupted(threshold, totalParties, secret, rnd, drawn)
       IN /\ parties' = parties \o run.written
          /\ dealer' = [ exit |-> "thrown",
                         privateKeyBN |-> run.privateKeyBN,
                         coefficients |-> run.coefficients ]
  /\ UNCHANGED <<validated, constructed, audited, now, presented, threshold, totalParties,
                 keyPair, message, sessionId, commonNonce, partialSigs, signers,
                 lastSign, combined, verified>>

\* key generation attempts until one returns
NextKeygenFailure ==
  \/ GenerateDistributedKeys
  \/ GenerateDistributedKeysInterrupted

SpecKeygenFailure == InitSharing /\ [][NextKeygenFailure]_vars

\* ------------------------------------------ two sessions on one instance
\* the message each session signs
sessionMessage(sid) ==
  IF sid \in SessionIds THEN "data to be signed" ELSE "another message"

\* the array of partial signatures a session's caller holds
sessionSigs(sid) == SelectSeq(partialSigs, LAMBDA sig : sig.sessionId = sid)

\* a party signs in one of the sessions, and that session's caller keeps the
\* signature
SignInSession ==
  /\ keyPair # NoKeys
  /\ Len(partialSigs) < MaxSigs
  /\ \E p \in 1..totalParties, sid \in OpenSessionIds :
       /\ \A i \in 1..Len(partialSigs) :
            ~(partialSigs[i].partyId = p /\ partialSigs[i].sessionId = sid)
       /\ LET run == generatePartialSignature(sessionMessage(sid), keyPair.parties[p],
                                              sid, commonNonce)
          IN /\ lastSign' = run
             /\ partialSigs' = IF run.ok THEN Append(partialSigs, run.sig) ELSE partialSigs
             /\ signers' = IF run.ok THEN Append(signers, shareOf(keyPair.parties[p]))
                           ELSE signers
  /\ UNCHANGED <<validated, constructed, audited, now, presented, threshold, totalParties,
                 parties, keyPair, dealer, message, sessionId, commonNonce, combined,
                 verified>>

\* tss.combinePartialSignatures(message, partialSigs) by the caller of a session
CombineSession ==
  /\ keyPair # NoKeys
  /\ \E sid \in OpenSessionIds :
       combined' = combinePartialSignatures(threshold, totalParties, sessionMessage(sid),
                                            sessionSigs(sid))
  /\ UNCHANGED <<validated, constructed, audited, now, presented, threshold, totalParties,
                 parties, keyPair, dealer, message, sessionId, commonNonce, partialSigs,
                 signers, lastSign, verified>>

\* tss.verifySignature(finalSig, keyPair.publicKey) on the last combined signature
VerifyCombined ==
  /\ keyPair # NoKeys
  /\ combined # None
  /\ combined.ok
  /\ LET args == [signature |-> combined.signature, publicKey |-> keyPair.publicKey]
     IN /\ presented' = [args |-> args]
        /\ verified' = verifyCall(args)
  /\ UNCHANGED <<validated, constructed, audited, now, threshold, totalParties, parties,
                 keyPair, dealer, message, sessionId, commonNonce, partialSigs, signers,
                 lastSign, combined>>

\* the calls of two sessions in any interleaving
NextInterleaved ==
  \/ GenerateDistributedKeys
  \/ SignInSession
  \/ CombineSession
  \/ VerifyCombined
  \/ Tick

SpecInterleaved == InitVerify /\ [][NextInterleaved]_vars

\* ------------------------------------------------ generating keys once more
\* a variant: the run writes its party records into the records of the map
earlierResultAfter_recordsReused(result, run) ==
  IF run.ok THEN [result EXCEPT !.parties = run.written] ELSE result

\* what a further generateDistributedKeys run does to a result returned before:
\* the run fills a new array with new party objects and puts these into the
\* map, so the array and the objects of the earlier result are not written
earlierResultAfter(result, run) == result

\* tss.generateDistributedKeys() on an instance that has keys, the caller
\* keeping the result it got before; called while the map still holds the
\* records of that result
GenerateDistributedKeysAgain ==
  /\ constructed.exit = "returned"
  /\ keyPair # NoKeys
  /\ parties = keyPair.parties
  /\ \E secret \in Scalars, rnd \in [1..(threshold - 1) -> Scalars] :
       LET run == keygenRun(threshold, totalParties, secret, rnd)
       IN /\ keyPair' = earlierResultAfter(keyPair, run)
          /\ parties' = IF run.ok THEN run.written ELSE parties
          /\ dealer' = [ exit |-> IF run.ok THEN "returned" ELSE "thrown",
                         privateKeyBN |-> run.privateKeyBN,
                         coefficients |-> run.coefficients ]
  /\ UNCHANGED <<validated, constructed, audited, now, presented, threshold, totalParties,
                 message, sessionId, commonNonce, partialSigs, signers, lastSign,
                 combined, verified>>

\* every operation of an instance whose keys are generated more than once
NextRegenerate ==
  \/ GenerateDistributedKeys
  \/ GenerateDistributedKeysAgain
  \/ GeneratePartialSignature
  \/ CombinePartialSignatures
  \/ VerifySignature
  \/ AuditPrivateKeyAccess

SpecRegenerate == InitVerify /\ [][NextRegenerate]_vars

\* ------------------------------------------- combining for a message argument
\* the parties whose key set needs three signers
InitMessages ==
  /\ InitCombine
  /\ threshold = 3
  /\ totalParties = 3

\* a party of the key set that has not signed yet signs one of the messages
\* with the agreed nonce
SignSomeMessage ==
  /\ keyPair # NoKeys
  /\ combined = None
  /\ Len(partialSigs) < MaxSigs
  /\ \E p \in 1..totalParties, m \in Messages :
       /\ ~hasSigned(p)
       /\ LET run == generatePartialSignature(m, keyPair.parties[p], sessionId, commonNonce)
          IN /\ lastSign' = run
             /\ partialSigs' = IF run.ok THEN Append(partialSigs, run.sig) ELSE partialSigs
             /\ signers' = IF run.ok THEN Append(signers, shareOf(keyPair.parties[p]))
                           ELSE signers
  /\ UNCHANGED <<validated, constructed, audited, now, presented, threshold, totalParties,
                 parties, keyPair, dealer, message, sessionId, commonNonce, combined,
                 verified>>

\* tss.combinePartialSignatures(m, partialSigs) for any message m
CombineForMessage ==
  /\ keyPair # NoKeys
  /\ combined = None
  /\ \E m \in Messages :
       combined' = combinePartialSignatures(threshold, totalParties, m, partialSigs)
  /\ UNCHANGED <<validated, constructed, audited, now, presented, threshold, totalParties,
                 parties, keyPair, dealer, message, sessionId, commonNonce, partialSigs,
                 signers, lastSign, verified>>

NextMessages ==
  \/ GenerateDistributedKeys
  \/ SignSomeMessage
  \/ CombineForMessage
  \/ VerifySignature

SpecMessages == InitMessages /\ [][NextMessages]_vars

\* ===================================================================== claims
\* every collected signature was made by a party of the key set with its own
\* share, no party twice
honestDistinct ==
  /\ \A i \in 1..Len(signers) : isGenuine(signers[i])
  /\ \A i, j \in 1..Len(signers) : signers[i].id = signers[j].id => i = j

\* the sum of lambda_i * si over the selected signatures, before normalisation
rawS == interpolate(threshold, selectUnique(threshold, partialSigs))

suppliedIds == uniqueIds(partialSigs)

\* C2: fewer than threshold partial signatures, whatever they hold, make
\* combinePartialSignatures fail with the insufficient-signatures error; no
\* signature is returned.
C2_TooFewRejected ==
  (combined # None /\ Len(partialSigs) < threshold) =>
     /\ ~combined.ok
     /\ combined.error = "At least <threshold> partial signatures are required"
     /\ combined.text = combined.error

\* fewer than threshold signatures, holding an unknown party and two values of r
C2_Witness ==
  /\ combined # None
  /\ Len(partialSigs) = threshold - 1
  /\ Len(partialSigs) >= 2
  /\ invalidParty(totalParties, partialSigs)
  /\ rMismatch(partialSigs)
  /\ ~combined.ok

\* C3: at least threshold signatures with one r and with party ids in
\* 1..totalParties, but fewer than threshold distinct ids, fail with the
\* insufficient-unique-parties error; no signature is returned.
C3_DuplicatesRejected ==
  ( /\ combined # None
    /\ Len(partialSigs) >= threshold
    /\ ~rMismatch(partialSigs)
    /\ ~invalidParty(totalParties, partialSigs)
    /\ Cardinality(suppliedIds) < threshold ) =>
     /\ ~combined.ok
     /\ combined.error = "Need <threshold> unique party signatures"

\* one party's signature supplied threshold times
C3_Witness ==
  /\ combined # None
  /\ threshold = 3
  /\ Len(partialSigs) = threshold
  /\ ~rMismatch(partialSigs)
  /\ ~invalidParty(totalParties, partialSigs)
  /\ Cardinality(suppliedIds) = 1
  /\ ~combined.ok

\* C7: at least threshold signatures of which any one, selected or not, has an r
\* other than the first one's fail with the nonce-mismatch error; no signature is
\* returned.
C7_NonceMismatchRejected ==
  ( /\ combined # None
    /\ Len(partialSigs) >= threshold
    /\ \E i \in 1..Len(partialSigs) : partialSigs[i].r # partialSigs[1].r ) =>
     /\ ~combined.ok
     /\ combined.error = "All partial signatures must have the same r value"

\* threshold distinct parties with one r come first; only a later signature,
\* which the selection would not reach, has another r
C7_Witness ==
  /\ combined # None
  /\ Len(partialSigs) > threshold
  /\ Len(selectUnique(threshold, SubSeq(partialSigs, 1, threshold))) = threshold
  /\ ~rMismatch(SubSeq(partialSigs, 1, threshold))
  /\ ~invalidParty(totalParties, SubSeq(partialSigs, 1, threshold))
  /\ partialSigs[Len(partialSigs)].r # partialSigs[1].r
  /\ ~combined.ok

\* C8: every signature combinePartialSignatures returns has s <= groupOrder / 2,
\* s being groupOrder minus the interpolated sum exactly when that sum exceeds
\* groupOrder / 2, and the sum itself otherwise.
C8_LowS ==
  (combined # None /\ combined.ok) =>
     /\ FromHex(combined.signature.s) <= GroupOrder \div 2
     /\ FromHex(combined.signature.s) =
          IF rawS > GroupOrder \div 2 THEN GroupOrder - rawS ELSE rawS

\* a combination whose interpolated sum was above groupOrder / 2
C8_Witness ==
  /\ combined # None
  /\ combined.ok
  /\ rawS > GroupOrder \div 2
  /\ FromHex(combined.signature.s) = GroupOrder - rawS

\* C9: in every successful combination participatingParties holds exactly
\* threshold party ids, pairwise distinct, each in 1..totalParties.
C9_ExactlyThresholdParties ==
  (combined # None /\ combined.ok) =>
     LET ids == combined.signature.participatingParties
     IN /\ Len(ids) = threshold
        /\ \A i, j \in 1..Len(ids) : ids[i] = ids[j] => i = j
        /\ \A i \in 1..Len(ids) : ids[i] \in 1..totalParties

\* a successful combination of an input with more signatures than the threshold,
\* one of them a duplicate
C9_Witness ==
  /\ combined # None
  /\ combined.ok
  /\ Len(partialSigs) > threshold
  /\ Cardinality(suppliedIds) < Len(partialSigs)

\* C10: a key generation result has totalParties parties, whose shareIndex values
\* are 1..totalParties in order, each with id = shareIndex and with the result's
\* publicKey; its threshold and totalParties are the instance's.
C10_KeyGenerationShape ==
  keyPair # NoKeys =>
     /\ Len(keyPair.parties) = totalParties
     /\ \A i \in 1..Len(keyPair.parties) :
          /\ keyPair.parties[i].shareIndex = i
          /\ keyPair.parties[i].id = keyPair.parties[i].shareIndex
          /\ keyPair.parties[i].publicKey = keyPair.publicKey
     /\ keyPair.threshold = threshold
     /\ keyPair.totalParties = totalParties

\* a 2-of-3 key set has been returned
C10_Witness ==
  /\ keyPair # NoKeys
  /\ dealer.exit = "returned"
  /\ threshold = 2
  /\ totalParties = 3
  /\ Len(keyPair.parties) = 3

isForeign(i) == ~isGenuine(signers[i])

\* partialSigs[i] is one of the signatures the combination uses
isSelected(i) ==
  /\ \A j \in 1..(i - 1) : partialSigs[j].partyId # partialSigs[i].partyId
  /\ \E q \in 1..Len(selectUnique(threshold, partialSigs)) :
       selectUnique(threshold, partialSigs)[q] = partialSigs[i]

\* the collected signatures, each foreign one replaced by the signature the party
\* of the key set with that id makes
genuineSigs ==
  [ i \in 1..Len(partialSigs) |->
      IF isGenuine(signers[i]) THEN partialSigs[i]
      ELSE generatePartialSignature(message, keyPair.parties[signers[i].id],
                                    sessionId, commonNonce).sig ]

\* the interpolated sum the genuine shares give
genuineRawS == interpolate(threshold, selectUnique(threshold, genuineSigs))

\* C5: combinePartialSignatures itself fails whenever the supplied signatures, at
\* least threshold of them and all with one r, include one made with a share of
\* another key set.
C5_ForeignMakesCombineFail ==
  ( /\ combined # None
    /\ Len(partialSigs) >= threshold
    /\ \E i \in 1..Len(partialSigs) : isForeign(i) ) =>
     ~combined.ok

distinctIds(t) ==
  { ids \in [1..t -> 1..totalParties] :
      \A a, b \in 1..t : a # b => ids[a] # ids[b] }

\* sum of lagrangeCoefficient(ids[i], ids) * share of party ids[i], from position p on
RECURSIVE shareSum(_, _, _)
shareSum(ids, p, acc) ==
  IF p > Len(ids) THEN acc
  ELSE shareSum(ids, p + 1,
                Umod(acc + Umod(lagrangeCoefficient(ids[p], ids)
                                * FromHex(keyPair.parties[ids[p]].privateKeyShare))))

\* C11: when a key generation has returned, the shares of any t distinct parties,
\* weighted by their Lagrange coefficients and summed modulo the group order,
\* give the master secret the public key was derived from.
C11_SharesInterpolateToSecret ==
  (keyPair # NoKeys /\ partialSigs = <<>> /\ combined = None) =>
    /\ keyPair.publicKey = Encode(GMul(dealer.privateKeyBN))
    /\ \A ids \in distinctIds(threshold) : shareSum(ids, 1, 0) = dealer.privateKeyBN

\* a key set of three parties whose polynomial is not constant; parties 3 and 1,
\* in this order, give the secret back
C11_Witness ==
  /\ keyPair # NoKeys
  /\ partialSigs = <<>>
  /\ combined = None
  /\ totalParties = 3
  /\ keyPair.parties[1].privateKeyShare # keyPair.parties[2].privateKeyShare
  /\ FromHex(keyPair.parties[3].privateKeyShare) # dealer.privateKeyBN
  /\ shareSum(<<3, 1>>, 1, 0) = dealer.privateKeyBN

\* C12: an instance has 2 <= threshold <= totalParties in every state; a
\* construction with threshold < 2 or threshold > totalParties throws and leaves
\* no instance; no operation changes threshold or totalParties of an instance.
C12_ThresholdBounds ==
  /\ [](constructed.exit = "returned" =>
          /\ 2 <= threshold
          /\ threshold <= totalParties
          /\ <<threshold, totalParties>> = constructed.args)
  /\ [](constructed.exit = "thrown" <=>
          /\ constructed.exit # "none"
          /\ (constructed.args[1] < 2 \/ constructed.args[1] > constructed.args[2]))
  /\ [](constructed.exit # "returned" =>
          /\ threshold = 0
          /\ totalParties = 0
          /\ keyPair = NoKeys /\ partialSigs = <<>> /\ combined = None
          /\ verified = None /\ audited = None)
  /\ [][constructed.exit = "returned" =>
          threshold' = threshold /\ totalParties' = totalParties]_vars

\* an instance that has generated keys, combined, verified and been audited
C12_Witness ==
  /\ constructed.exit = "returned"
  /\ threshold = 2
  /\ totalParties = 3
  /\ keyPair # NoKeys
  /\ verified # None
  /\ audited # None

\* C13: verifySignature never throws: whatever the signature and the public key
\* are, fields or arguments undefined and keys that encode no point included, it
\* returns an object with valid, and with valid false and a reason on a failure.
C13_VerifyNeverThrows ==
  verified # None =>
    /\ ~has(verified, "threw")
    /\ has(verified, "valid")
    /\ verified.valid \in BOOLEAN
    /\ ~verified.valid => has(verified, "reason")

\* an undefined signature was verified: the TypeError was caught and reported
C13_Witness ==
  /\ presented # None
  /\ ~has(presented.args, "signature")
  /\ verified # None
  /\ ~verified.valid
  /\ verified.reason
       = "Verification error: Cannot read properties of undefined (reading 'message')"

\* the digest verifySignature computes from the presented signature's message
presentedHash ==
  IF has(presented.args.signature, "message")
  THEN SHA256(presented.args.signature.message) ELSE EmptyDigest

\* the presented signature's messageHash is not the digest of its message
hashDiffers ==
  \/ ~has(presented.args.signature, "messageHash")
  \/ presented.args.signature.messageHash # presentedHash

\* C14: when the digest of signature.message differs from signature.messageHash,
\* verifySignature returns valid false with the hash-mismatch reason, whatever the
\* public key, r and s are; such a signature is never reported valid.
C14_HashMismatchFirst ==
  ( /\ presented # None
    /\ verified # None
    /\ has(presented.args, "signature")
    /\ hashDiffers ) =>
     verified = [valid |-> FALSE, reason |-> "Message hash mismatch"]

\* a signature with a wrong messageHash, r = 0 and a key that encodes no point
\* was verified
C14_Witness ==
  /\ presented # None
  /\ verified # None
  /\ has(presented.args, "signature")
  /\ has(presented.args.signature, "messageHash")
  /\ has(presented.args.signature, "message")
  /\ hashDiffers
  /\ has(presented.args.signature, "r")
  /\ presented.args.signature.r = ToHex(0)
  /\ has(presented.args, "publicKey")
  /\ ~IsPointEncoding(presented.args.publicKey)
  /\ verified.reason = "Message hash mismatch"

\* C15: when generateDistributedKeys has returned, the coefficients hold only
\* zeros, no variable of the run still holds the master secret, and the master
\* secret is no field of the result or of the instance.
C15_SecretDestroyed ==
  dealer.exit = "returned" =>
    /\ \A i \in 1..Len(dealer.coefficients) : dealer.coefficients[i] = 0
    /\ dealer.privateKeyBN = 0
    /\ DOMAIN keyPair = {"publicKey", "parties", "threshold", "totalParties"}
    /\ \A p \in 1..Len(parties) :
         DOMAIN parties[p] = {"id", "privateKeyShare", "publicKey", "shareIndex"}

\* the fields of the records the operations return
partialSignatureFields ==
  {"partyId", "sessionId", "r", "si", "messageHash", "message"}
signatureFields ==
  {"r", "s", "message", "messageHash", "participatingParties", "sessionId"}
auditFields ==
  {"audit", "privateKeyReconstructionAvailable", "distributedSigningOnly", "timestamp"}

withoutTime(res) == [f \in DOMAIN res \ {"verifiedAt"} |-> res[f]]

\* C17 as stated: a repeated verifySignature call with the same signature and
\* public key returns the same result as the call before it.
C17_SameResult ==
  [][(VerifyPresented /\ verified # None) => verified' = verified]_vars

\* C17 amended: a repeated call returns the same valid, reason, message,
\* publicKey and participants as the call before it, whatever was done to the
\* instance in between; verifiedAt of a valid result is the time of the call.
C17_SameVerdict ==
  [][VerifyPresented =>
       /\ verified # None => withoutTime(verified') = withoutTime(verified)
       /\ verified'.valid <=> has(verified', "verifiedAt")
       /\ verified'.valid => verified'.verifiedAt = now]_vars

\* a valid signature was verified, time passed and keys were generated, and it
\* was verified again
C17_Witness ==
  /\ verified # None
  /\ verified.valid
  /\ verified.verifiedAt = MaxClock
  /\ keyPair # NoKeys
  /\ keyPair.publicKey # presented.args.publicKey

\* the four conditions on the supplied signatures, as the caller sees them
countViolated == Len(partialSigs) < threshold
rViolated == \E i, j \in 1..Len(partialSigs) : partialSigs[i].r # partialSigs[j].r
partyViolated == \E i \in 1..Len(partialSigs) : partialSigs[i].partyId \notin 1..totalParties
uniqueViolated == Cardinality(suppliedIds) < threshold

\* C18: combinePartialSignatures checks the count, the r values, the party ids
\* and the number of distinct parties in this order, each with its own error;
\* the error reported is that of the first condition violated, and there is
\* none when no condition is violated.
C18_ValidationOrder ==
  combined # None =>
    /\ countViolated =>
         combined.error = "At least <threshold> partial signatures are required"
    /\ (~countViolated /\ rViolated) =>
         combined.error = "All partial signatures must have the same r value"
    /\ (~countViolated /\ ~rViolated /\ partyViolated) =>
         combined.error = "One or more signatures are from invalid parties"
    /\ (~countViolated /\ ~rViolated /\ ~partyViolated /\ uniqueViolated) =>
         combined.error = "Need <threshold> unique party signatures"
    /\ (~countViolated /\ ~rViolated /\ ~partyViolated /\ ~uniqueViolated) => combined.ok

\* three signatures that differ in r, name a party that does not exist and have
\* too few distinct parties were combined
C18_Witness ==
  /\ combined # None
  /\ threshold = 3
  /\ ~countViolated
  /\ rViolated
  /\ partyViolated
  /\ uniqueViolated
  /\ combined.error = "All partial signatures must have the same r value"

\* partialSigs[i] is the first signature of its party
isFirst(i) == \A j \in 1..(i - 1) : partialSigs[j].partyId # partialSigs[i].partyId

\* how many distinct parties have been seen up to position i
rank(i) == Cardinality({j \in 1..i : isFirst(j)})

\* the position of the first signature of the q-th distinct party
firstSeen(q) == CHOOSE i \in 1..Len(partialSigs) : isFirst(i) /\ rank(i) = q

\* the first signature of each of the first threshold distinct parties
firstSeenSigs == [q \in 1..threshold |-> partialSigs[firstSeen(q)]]

\* C19: in a successful combination participatingParties are the first threshold
\* distinct party ids in input order, and s is computed from the first signature
\* of each of them alone: later duplicates and the signatures after the
\* threshold-th distinct party do not enter s.
C19_FirstSeenRule ==
  (combined # None /\ combined.ok) =>
    /\ combined.signature.participatingParties
         = [q \in 1..threshold |-> partialSigs[firstSeen(q)].partyId]
    /\ combined.signature.s = ToHex(normalize(interpolate(threshold, firstSeenSigs)))

\* a party signed twice with different si, and the combination succeeded
C19_Witness ==
  /\ combined # None
  /\ combined.ok
  /\ Len(partialSigs) = 3
  /\ threshold = 2
  /\ partialSigs[1].partyId = partialSigs[2].partyId
  /\ partialSigs[1].si # partialSigs[2].si
  /\ partialSigs[3].partyId # partialSigs[1].partyId

\* C20: a combination that succeeds was made from partial signatures that all
\* carry one sessionId and one messageHash.
C20_OneSessionOneHash ==
  (combined # None /\ combined.ok) =>
    \A i, j \in 1..Len(partialSigs) :
      /\ partialSigs[i].sessionId = partialSigs[j].sessionId
      /\ partialSigs[i].messageHash = partialSigs[j].messageHash

\* the nonce of the session as a scalar
nonceScalar == FromHex(commonNonce) % GroupOrder

\* C21: for a nonce k that is not a multiple of the group order,
\* generatePartialSignature returns r = x-coordinate of k*G modulo the group
\* order, the same for every party, share and message, and si with
\* k * si = hash(message) + r * share modulo the group order.
C21_PartialSignatureEquation ==
  /\ (lastSign # None /\ nonceScalar # 0) => lastSign.ok
  /\ \A i \in 1..Len(partialSigs) :
       /\ nonceScalar # 0
       /\ partialSigs[i].r = ToHex(PointX[GMul(nonceScalar)] % GroupOrder)
       /\ (nonceScalar * FromHex(partialSigs[i].si)) % GroupOrder
            = (FromHex(SHA256(message))
                 + FromHex(partialSigs[i].r) * FromHex(signers[i].privateKeyShare))
              % GroupOrder
       /\ partialSigs[i].partyId = signers[i].id
       /\ partialSigs[i].messageHash = SHA256(message)

\* two parties holding different shares have signed with the same nonce
C21_Witness ==
  /\ Len(partialSigs) = 2
  /\ lastSign # None
  /\ lastSign.ok
  /\ signers[1].privateKeyShare # signers[2].privateKeyShare
  /\ partialSigs[1].si # partialSigs[2].si
  /\ partialSigs[1].r = partialSigs[2].r
  /\ FromHex(partialSigs[1].r) # 0

\* partialSigs[i] and partialSigs[j] were made by two parties without a nonce
\* argument
twoDerived(i, j) ==
  /\ signers[i].derived
  /\ signers[j].derived
  /\ signers[i].id # signers[j].id

C23_PartialNeverValid ==
  verified # None =>
    /\ ~verified.valid
    /\ verified.reason = "Signature verification failed"

\* the partial signature of a party whose share is the master secret itself was
\* passed to the verifier
C23_Witness ==
  /\ verified # None
  /\ presented # None
  /\ FromHex(presented.args.signature.si) # 0
  /\ FromHex(presented.args.signature.r) # 0
  /\ FromHex(keyPair.parties[presented.args.signature.partyId].privateKeyShare)
       = dealer.privateKeyBN

\* the sets of threshold - 1 parties
smallCoalitions == {I \in SUBSET (1..totalParties) : Cardinality(I) = threshold - 1}

\* the random draws with which a key generation for the secret c gives the
\* parties of I the shares they hold
consistentDraws(c, I) ==
  { rnd \in [1..(threshold - 1) -> Scalars] :
      \A i \in I :
        ToHex(evaluatePolynomial(generatePolynomialCoefficients(threshold, c, rnd), i))
          = keyPair.parties[i].privateKeyShare }

\* C24: the shares of any threshold - 1 parties are consistent with every
\* scalar as the secret, each through exactly one polynomial: a key generation
\* with another secret can give these parties the same shares.
C24_FewerSharesRevealNothing ==
  keyPair # NoKeys =>
    \A I \in smallCoalitions :
      \A c \in Scalars : Cardinality(consistentDraws(c, I)) = 1

\* a 3-of-3 key set: any two of its shares fit another secret as well
C24_Witness ==
  /\ keyPair # NoKeys
  /\ threshold = 3
  /\ totalParties = 3
  /\ \E c \in Scalars :
       /\ c # dealer.privateKeyBN
       /\ consistentDraws(c, {2, 3}) # {}

\* C25: validateTSSImplementation applied to an instance reports every check
\* passed and overall 'SECURE TSS', and leaves the instance as it is.
C25_ValidatorPasses ==
  validated # None =>
    /\ \A c \in DOMAIN validated.checks : validated.checks[c]
    /\ validated.overall = "SECURE TSS"

\* C26: when generateDistributedKeys throws, the master secret and the
\* coefficients of the attempt are zeroed, and the parties map holds no record
\* of the attempt.
C26_NoResidue ==
  dealer.exit = "thrown" =>
    /\ dealer.privateKeyBN = 0
    /\ \A i \in 1..Len(dealer.coefficients) : dealer.coefficients[i] = 0
    /\ parties = <<>>

\* what every step leaves alone once the keys exist: the instance, and the
\* partial signatures made before
instanceKept ==
  /\ UNCHANGED <<threshold, totalParties>>
  /\ keyPair # NoKeys => UNCHANGED <<parties, keyPair>>
  /\ Len(partialSigs') >= Len(partialSigs)
  /\ \A i \in 1..Len(partialSigs) : partialSigs'[i] = partialSigs[i]

\* every signature made is the one its call returns when made alone
signsAlone ==
  \A i \in 1..Len(partialSigs) :
    LET sig == partialSigs[i]
    IN sig = generatePartialSignature(sessionMessage(sig.sessionId),
                                      keyPair.parties[sig.partyId],
                                      sig.sessionId, commonNonce).sig

\* the combined signature is the one its session's call returns when made alone
combinesAlone ==
  (combined # None /\ combined.ok) =>
    combined = combinePartialSignatures(threshold, totalParties,
                                        sessionMessage(combined.signature.sessionId),
                                        sessionSigs(combined.signature.sessionId))

sessionR == PointX[GMul(nonceScalar)] % GroupOrder
sessionS ==
  LET s == (Invm(nonceScalar)
            * (FromHex(SHA256(message)) + sessionR * dealer.privateKeyBN)) % GroupOrder
  IN IF s > GroupOrder \div 2 THEN GroupOrder - s ELSE s

\* C29: whichever parties of the key set signed the message with the nonce, and
\* in whatever order their signatures are passed, combinePartialSignatures
\* returns the same r and s.
C29_SelectionIndependent ==
  (combined # None /\ combined.ok) =>
    /\ combined.signature.r = ToHex(sessionR)
    /\ combined.signature.s = ToHex(sessionS)

\* three parties of a 2-of-3 key set signed, the third first, and the
\* signatures of parties 3 and 1 were combined
C29_Witness ==
  /\ combined # None
  /\ combined.ok
  /\ threshold = 2
  /\ Len(partialSigs) = 3
  /\ combined.signature.participatingParties = <<3, 1>>
  /\ combined.signature.s # ToHex(0)

\* the message a contributing party signed
signedBy(p) ==
  LET i == CHOOSE i \in 1..Len(partialSigs) : partialSigs[i].partyId = p
  IN partialSigs[i].message

\* C30, its first part: whatever message is passed, the combined signature
\* carries the first partial signature's hash, and when the message is not the
\* one that signature was made for, verifySignature answers with the hash
\* mismatch.
C30_ArgumentNotChecked ==
  /\ (combined # None /\ combined.ok) =>
        combined.signature.messageHash = partialSigs[1].messageHash
  /\ (verified # None /\ combined.signature.message # partialSigs[1].message) =>
        verified = [valid |-> FALSE, reason |-> "Message hash mismatch"]

\* C30: verifySignature returns valid: true only for a message that every
\* contributing party signed.
C30_OnlySignedMessagesVerify ==
  (verified # None /\ verified.valid) =>
    \A q \in 1..Len(verified.participants) :
      signedBy(verified.participants[q]) = verified.message

====
